---- MODULE Spec2Model ----
(***************************************************************************)
(* Control plane of the Meet recorder: the global server of src/server.js  *)
(* (GlobalMeetRecorderBackend and its WebSocket handlers) together with    *)
(* the reply side of the local agent (handleServerMessage in               *)
(* src/unnamed/part_001).                                                  *)
(*                                                                         *)
(* One action of the model is one macrotask of the Node.js event loop: an  *)
(* inbound request or WebSocket event, a timer callback, together with     *)
(* every promise continuation it releases (microtasks run to completion    *)
(* before the next macrotask).                                             *)
(*                                                                         *)
(* messageId (Date.now() + "_" + Math.random()) is modelled as a fresh     *)
(* number: one that no promise, handler or frame in existence carries.     *)
(* `calls` holds the promises something can still refer to; a settled      *)
(* promise with no frame left on the wire is forgotten by the next step.   *)
(***************************************************************************)
EXTENDS Integers, Sequences, FiniteSets, TLC

\* ------------------------------------------------------------------ bounds
\* Number of clock steps in a run.
MaxTicks == 1
\* Largest number of audio devices an agent reports.
MaxDevices == 1
\* ffmpeg processes an agent spawns over a run.
MaxProcs == 2
\* Largest number of recording sessions findBestClient is tried with on one
\* agent.
MaxLoad == 12

\* ------------------------------------------------------- program constants
DefaultTimeout == 30000
HealthCheckTimeout == 10000
RecencyWindow == 60000
BaseScore == 100
SessionPenalty == 10
RecencyBonus == 10

\* The clock advances in steps of one default timeout.
TickMs == DefaultTimeout

\* The WebSocket connections the server accepts in a run, in the order of
\* their 'connection' events.
SocketOrder == <<"w1", "w2">>
Sockets == {SocketOrder[i] : i \in 1..Len(SocketOrder)}
NoSocket == "-"
Clients == {"A", "B"}
SessionIds == {"s1", "s2"}
NoClient == "none"
NoSession == "-"

VARIABLES
  sock,             \* readyState of every WebSocket the server has accepted
  connectedClients, \* Map clientId -> {ws, ...}, in insertion order
  clientHealth,     \* Map clientId -> health record, in insertion order
  activeSessions,   \* Map sessionId -> session object
  calls,            \* every sendToLocalClient promise, indexed by messageId
  cmds,             \* command frames sent to agents and not yet handled
  replies,          \* RESPONSE frames sent by agents and not yet delivered
  hc,               \* position of performClientHealthCheck in its loop
  now,              \* Date.now()
  ret,              \* what the step just taken returned to its caller
  agent             \* per socket, the agent behind it: its activeSessions,
                    \* its ffmpeg processes and its stops awaiting an exit

vars == <<sock, connectedClients, clientHealth, activeSessions, calls, cmds,
          replies, hc, now, ret, agent>>

\* ------------------------------------------------------------ Map helpers
\* A JavaScript Map keyed by clientId is a sequence of entries in insertion
\* order; every entry carries its key in the field clientId.
MapHas(m, k) == \E i \in 1..Len(m) : m[i].clientId = k
MapIdx(m, k) == CHOOSE i \in 1..Len(m) : m[i].clientId = k
MapGet(m, k) == m[MapIdx(m, k)]
\* A set that adds an entry whether or not the key is there.
MapSetAppending(m, e) == Append(m, e)

MapSet(m, e) ==
  IF MapHas(m, e.clientId) THEN [m EXCEPT ![MapIdx(m, e.clientId)] = e]
  ELSE Append(m, e)
MapDelete(m, k) == SelectSeq(m, LAMBDA e : e.clientId # k)
MapKeys(m) == {m[i].clientId : i \in 1..Len(m)}

\* What a step returned to the caller of startRecording or stopRecording:
\* phase "called" for the step the request arrives in (out is "pending" when
\* the function is left waiting for the agent's reply), phase "settled" for
\* the step in which the awaited reply or timeout ends it.
NoRet == [op |-> "none", sessionId |-> NoSession, phase |-> "-", out |-> "-"]
Ret(op, sessionId, phase, out) ==
  [op |-> op, sessionId |-> sessionId, phase |-> phase, out |-> out]

\* What a RESPONSE carries: response.error, or response.data, of which the
\* model keeps ffmpeg, the number of audioDevices, and message: "-" unless
\* the data is a result object with success: false, whose message it then is.
NoData == [ffmpeg |-> FALSE, audioDevices |-> 0, error |-> "-", message |-> "-"]

\* The agent of src/unnamed/part_001 right after its constructor: no session,
\* no ffmpeg process spawned, no stopRecording waiting for an exit, audio
\* not muted, no restart scheduled.
Pids == 1..MaxProcs
NoAgent ==
  [sessions |-> <<>>, procs |-> [p \in Pids |-> "none"], stops |-> {},
   audioMuted |-> FALSE, restarts |-> {}]

\* The message ids a run draws from.
Ids == {1, 2}
\* A slot of `calls` that holds no promise.
Unused ==
  [ clientId |-> NoClient, ws |-> NoSocket, command |-> "-", sessionId |-> NoSession,
    timeout |-> 0, issuedAt |-> 0, awaiter |-> "-", stale |-> FALSE,
    responseReceived |-> FALSE, handler |-> FALSE, timer |-> "none",
    promise |-> "unused", value |-> NoData ]
IdleHc == [active |-> FALSE, pos |-> 0, id |-> 0]

Init ==
  /\ sock = [w \in Sockets |-> "NONE"]
  /\ connectedClients = <<>>
  /\ clientHealth = <<>>
  /\ activeSessions = <<>>
  /\ calls = [id \in Ids |-> Unused]
  /\ cmds = {}
  /\ replies = {}
  /\ hc = IdleHc
  /\ now = 0
  /\ ret = NoRet
  /\ agent = [w \in Sockets |-> NoAgent]

\* ------------------------------------------------------- error messages
ErrNotConnected == "Local client not connected"
ErrNotReady == "Local client WebSocket not ready"
ErrSendFailed == "Failed to send command to client"
ErrTimeout == "Local client response timeout"
ErrNoClient == "No healthy clients available for recording"
\* The result of a stopRecording that reports success for an unknown id.
NoRecordingAsSuccess == "ok"
ErrNoRecording == "No active recording found"
ErrFFmpeg == "FFmpeg is not installed or not accessible"
ErrForced == "FFmpeg forcefully killed"

\* The value `new Date()` / Date.now() written by a step.
Stamp == now

\* sendToLocalClient without the readyState check of lines 127-129.
CanSendUnchecked(clientId) ==
  /\ MapHas(connectedClients, clientId)
  /\ MapGet(connectedClients, clientId).connected

\* ------------------------------------------------- sendToLocalClient
\* Lines 122-129: the checks made before anything is sent.
CanSend(clientId) ==
  /\ MapHas(connectedClients, clientId)
  /\ MapGet(connectedClients, clientId).connected
  /\ sock[MapGet(connectedClients, clientId).ws] = "OPEN"

UnavailableError(clientId) ==
  IF ~MapHas(connectedClients, clientId)
     \/ ~MapGet(connectedClients, clientId).connected
  THEN ErrNotConnected
  ELSE ErrNotReady

\* A settled promise that no frame on the wire, and no stopRecording still
\* waiting in an agent, refers to any more.
Dead(id) ==
  /\ calls[id].promise \in {"fulfilled", "rejected"}
  /\ \A m \in cmds : m.id # id
  /\ \A r \in replies : r.id # id
  /\ \A w \in Sockets : \A st \in agent[w].stops : st.id # id

\* The promises a step starts from: the dead ones are forgotten.
Kept == [id \in Ids |-> IF Dead(id) THEN Unused ELSE calls[id]]

\* The messageId of the next call: fresh.
FreeIds == {id \in Ids : calls[id].promise = "unused"}
messageId == CHOOSE id \in FreeIds : \A other \in FreeIds : id <= other

\* A call whose failed send leaves its responseHandler on the socket.
NewCallLeavingHandler(clientId, ws, command, sessionId, timeout, awaiter, throws) ==
  [ clientId |-> clientId,
    ws |-> ws,
    command |-> command,
    sessionId |-> sessionId,
    timeout |-> timeout,
    issuedAt |-> Stamp,
    awaiter |-> awaiter,
    stale |-> FALSE,
    responseReceived |-> FALSE,
    handler |-> TRUE,
    timer |-> IF throws THEN "none" ELSE "armed",
    promise |-> IF throws THEN "rejected" ELSE "pending",
    value |-> IF throws THEN [NoData EXCEPT !.error = ErrSendFailed] ELSE NoData ]

\* Lines 131-194: the promise made for a call that passed the checks.
\* throws: client.ws.send raised (lines 167-171), so the handler is removed
\* again and the promise is rejected before the timer is armed.
NewCall(clientId, ws, command, sessionId, timeout, awaiter, throws) ==
  [ clientId |-> clientId,
    ws |-> ws,
    command |-> command,
    sessionId |-> sessionId,
    timeout |-> timeout,
    issuedAt |-> Stamp,
    awaiter |-> awaiter,
    stale |-> FALSE,
    responseReceived |-> FALSE,
    handler |-> ~throws,
    timer |-> IF throws THEN "none" ELSE "armed",
    promise |-> IF throws THEN "rejected" ELSE "pending",
    value |-> IF throws THEN [NoData EXCEPT !.error = ErrSendFailed] ELSE NoData ]

\* The frame written to the agent's WebSocket (line 165).
Frame(ws, command, sessionId) ==
  [ ws |-> ws,
    id |-> messageId,
    command |-> command,
    sessionId |-> sessionId ]

\* The socket sendToLocalClient reads from the registry (line 122).
WsOf(clientId) == MapGet(connectedClients, clientId).ws

\* The calls, and the frames on the wire, after one more call was made.
CallsAfter(clientId, ws, command, sessionId, timeout, awaiter, throws) ==
  [Kept EXCEPT ![messageId] =
     NewCall(clientId, ws, command, sessionId, timeout, awaiter, throws)]

CmdsAfter(ws, command, sessionId, throws) ==
  IF throws THEN cmds ELSE cmds \cup {Frame(ws, command, sessionId)}

\* ------------------------------------------------------ findBestClient
\* A count that also takes the sessions whose START_RECORDING is awaited.
RecordingCountWithPending(sessions, clientId) ==
  Cardinality({s \in DOMAIN sessions :
                 sessions[s].clientId = clientId /\ sessions[s].status = "recording"})
  + Cardinality({id \in Ids : /\ calls[id].promise = "pending"
                              /\ calls[id].command = "START_RECORDING"
                              /\ calls[id].clientId = clientId})

RecordingCount(sessions, clientId) ==
  Cardinality({s \in DOMAIN sessions :
                 sessions[s].clientId = clientId /\ sessions[s].status = "recording"})

\* Lines 208-221.
Score(health, sessions, t) ==
  BaseScore
  - RecordingCount(sessions, health.clientId) * SessionPenalty
  + health.audioDevices
  + (IF t - health.lastHealthCheck < RecencyWindow THEN RecencyBonus ELSE 0)

\* findBestClient that trusts the health record alone.
EligibleByHealthOnly(health, clients) ==
  /\ health.status = "healthy"
  /\ health.ffmpegAvailable

\* Lines 203-206.
Eligible(health, clients) ==
  /\ health.status = "healthy"
  /\ health.ffmpegAvailable
  /\ MapHas(clients, health.clientId)
  /\ MapGet(clients, health.clientId).connected

RECURSIVE BestFrom(_, _, _, _, _, _, _)
BestFrom(i, bestClient, bestScore, healthMap, clients, sessions, t) ==
  IF i > Len(healthMap) THEN bestClient
  ELSE IF Eligible(healthMap[i], clients)
          /\ Score(healthMap[i], sessions, t) > bestScore
       THEN BestFrom(i + 1, healthMap[i].clientId, Score(healthMap[i], sessions, t),
                     healthMap, clients, sessions, t)
       ELSE BestFrom(i + 1, bestClient, bestScore, healthMap, clients, sessions, t)

FindBestClientIn(healthMap, clients, sessions, t) ==
  BestFrom(1, NoClient, -1, healthMap, clients, sessions, t)

findBestClient == FindBestClientIn(clientHealth, connectedClients, activeSessions, now)

\* --------------------------------------------------- getActiveRecordings
getActiveRecordings ==
  {s \in DOMAIN activeSessions : activeSessions[s].status = "recording"}

\* ------------------------------------------------------------ transport
\* wss.on('connection'): a new WebSocket, OPEN from the server's side.
Connect(w) ==
  /\ sock[w] = "NONE"
  /\ \A i, j \in 1..Len(SocketOrder) :
        i < j /\ SocketOrder[j] = w => sock[SocketOrder[i]] # "NONE"
  /\ sock' = [sock EXCEPT ![w] = "OPEN"]
  /\ calls' = Kept
  /\ ret' = NoRet
  /\ UNCHANGED <<connectedClients, clientHealth, activeSessions, cmds,
                 replies, hc, now, agent>>

\* The loop of performClientHealthCheck is a live iterator over
\* connectedClients: deleting an entry at or before its position moves the
\* position back by one, so the entry after it is the next one visited.
HcAfterDelete(i) ==
  IF hc.active /\ i <= hc.pos THEN [hc EXCEPT !.pos = @ - 1] ELSE hc

\* A close handler that deletes the first registry entry whatever
\* connection it holds.
ClosedEntriesAnySocket(w) == 1..Len(connectedClients)

\* Lines 395-405, ws.on('close'): the first registry entry whose ws is the
\* closed socket is deleted; nothing else is touched.
ClosedEntries(w) == {i \in 1..Len(connectedClients) : connectedClients[i].ws = w}

FirstClosedEntry(w) == CHOOSE i \in ClosedEntries(w) : \A j \in ClosedEntries(w) : i <= j

RegistryAfterClose(w) ==
  IF ClosedEntries(w) = {} THEN connectedClients
  ELSE MapDelete(connectedClients, connectedClients[FirstClosedEntry(w)].clientId)

HealthAfterClose(w) == clientHealth

SessionsAfterClose(w) == activeSessions

\* A close handler that rejects the calls pending on the closed socket.
CallsRejectedOnClose(w) ==
  [id \in Ids |->
     IF Kept[id].promise = "pending" /\ Kept[id].ws = w
     THEN [Kept[id] EXCEPT !.promise = "rejected", !.handler = FALSE,
                           !.timer = "cleared",
                           !.value = [NoData EXCEPT !.error = ErrNotConnected]]
     ELSE Kept[id]]

\* Lines 395-405 touch no promise, handler or timer of sendToLocalClient.
CallsAfterClose(w) == Kept

CloseSocket(w) ==
  /\ sock[w] = "OPEN"
  /\ sock' = [sock EXCEPT ![w] = "CLOSED"]
  /\ connectedClients' = RegistryAfterClose(w)
  /\ clientHealth' = HealthAfterClose(w)
  /\ activeSessions' = SessionsAfterClose(w)
  /\ hc' = IF ClosedEntries(w) = {} THEN hc ELSE HcAfterDelete(FirstClosedEntry(w))
  \* frames in flight on the closed connection are lost
  /\ cmds' = {m \in cmds : m.ws # w}
  /\ replies' = {r \in replies : r.ws # w}
  /\ calls' = CallsAfterClose(w)
  /\ ret' = NoRet
  /\ UNCHANGED <<now, agent>>

\* ------------------------------------------------------------- registry
\* Lines 56-63 and 65-69.
ClientEntry(w, clientId) == [clientId |-> clientId, ws |-> w, connected |-> TRUE]

\* A registration that takes the agent's ffmpeg for granted.
InitialHealthAssumingFFmpeg(clientId) ==
  [ clientId |-> clientId,
    status |-> "healthy",
    lastHealthCheck |-> Stamp,
    ffmpegAvailable |-> TRUE,
    audioDevices |-> 0,
    fields |-> {"ffmpegAvailable"},
    error |-> "-" ]

InitialHealth(clientId) ==
  [ clientId |-> clientId,
    status |-> "healthy",
    lastHealthCheck |-> Stamp,
    ffmpegAvailable |-> FALSE,
    audioDevices |-> 0,
    fields |-> {"ffmpegAvailable"},
    error |-> "-" ]

\* Lines 53-75 (case 'REGISTER_CLIENT', lines 329-335): the records are
\* written, then checkClientSystemRequirements (lines 308-315) sends a
\* SYSTEM_CHECK whose result nothing reads.
RegisterClient(w, clientId, throws) ==
  /\ sock[w] = "OPEN"
  /\ FreeIds # {}
  /\ connectedClients' = MapSet(connectedClients, ClientEntry(w, clientId))
  /\ clientHealth' = MapSet(clientHealth, InitialHealth(clientId))
  /\ calls' = CallsAfter(clientId, w, "SYSTEM_CHECK", NoSession, DefaultTimeout,
                         "registerClient", throws)
  /\ cmds' = CmdsAfter(w, "SYSTEM_CHECK", NoSession, throws)
  /\ ret' = NoRet
  /\ UNCHANGED <<sock, activeSessions, replies, hc, now, agent>>

\* Lines 78-91.
SessionsAfterRemove(clientId) ==
  [s \in DOMAIN activeSessions |->
     IF activeSessions[s].clientId = clientId
     THEN [activeSessions[s] EXCEPT !.status = "client_disconnected"]
     ELSE activeSessions[s]]

RemoveClient(clientId) ==
  /\ connectedClients' = MapDelete(connectedClients, clientId)
  /\ clientHealth' = MapDelete(clientHealth, clientId)
  /\ activeSessions' = SessionsAfterRemove(clientId)
  /\ hc' = IF MapHas(connectedClients, clientId)
           THEN HcAfterDelete(MapIdx(connectedClients, clientId))
           ELSE hc
  /\ calls' = Kept
  /\ ret' = NoRet
  /\ UNCHANGED <<sock, cmds, replies, now, agent>>

\* -------------------------------------------------------------- the clock
Tick ==
  /\ now < MaxTicks * TickMs
  /\ now' = now + TickMs
  /\ calls' = Kept
  /\ ret' = NoRet
  /\ UNCHANGED <<sock, connectedClients, clientHealth, activeSessions,
                 cmds, replies, hc, agent>>

\* ------------------------------------------- performClientHealthCheck
\* Lines 99-105 and 111-115: the record written after a probe.
HealthyRecord(clientId, data) ==
  [ clientId |-> clientId,
    status |-> "healthy",
    lastHealthCheck |-> Stamp,
    ffmpegAvailable |-> data.ffmpeg,
    audioDevices |-> data.audioDevices,
    fields |-> {"ffmpegAvailable", "audioDevices", "platform"},
    error |-> "-" ]

\* A failure record that keeps what the earlier record said of the agent.
UnhealthyKeepingFlags(clientId, message) ==
  IF MapHas(clientHealth, clientId)
  THEN [MapGet(clientHealth, clientId) EXCEPT !.status = "unhealthy",
                                               !.lastHealthCheck = Stamp,
                                               !.error = message]
  ELSE [ clientId |-> clientId, status |-> "unhealthy", lastHealthCheck |-> Stamp,
         ffmpegAvailable |-> FALSE, audioDevices |-> 0, fields |-> {"error"},
         error |-> message ]

UnhealthyRecord(clientId, message) ==
  [ clientId |-> clientId,
    status |-> "unhealthy",
    lastHealthCheck |-> Stamp,
    ffmpegAvailable |-> FALSE,
    audioDevices |-> 0,
    fields |-> {"error"},
    error |-> message ]

\* Lines 95-117 from entry i on, up to the first probe that is sent and
\* awaited: an entry whose socket is not OPEN, or whose send raises (its
\* socket is in bad), is marked unhealthy at once and the loop goes on.
RECURSIVE HcAdvance(_, _, _)
HcAdvance(i, healthMap, bad) ==
  IF i > Len(connectedClients)
  THEN [health |-> healthMap, pos |-> 0, sent |-> FALSE]
  ELSE IF sock[connectedClients[i].ws] # "OPEN"
  THEN HcAdvance(i + 1,
                 MapSet(healthMap, UnhealthyRecord(connectedClients[i].clientId, ErrNotReady)),
                 bad)
  ELSE IF connectedClients[i].ws \in bad
  THEN HcAdvance(i + 1,
                 MapSet(healthMap, UnhealthyRecord(connectedClients[i].clientId, ErrSendFailed)),
                 bad)
  ELSE [health |-> healthMap, pos |-> i, sent |-> TRUE]

\* The loop runs on from entry i with health map healthMap and calls cs.
HcRun(i, healthMap, cs, bad) ==
  LET adv == HcAdvance(i, healthMap, bad) IN
  /\ clientHealth' = adv.health
  /\ IF adv.sent
     THEN /\ FreeIds # {}
          /\ calls' = [cs EXCEPT ![messageId] =
               NewCall(connectedClients[adv.pos].clientId, connectedClients[adv.pos].ws,
                       "SYSTEM_CHECK", NoSession, HealthCheckTimeout,
                       "performClientHealthCheck", FALSE)]
          /\ cmds' = cmds \cup {Frame(connectedClients[adv.pos].ws, "SYSTEM_CHECK", NoSession)}
          /\ hc' = [active |-> TRUE, pos |-> adv.pos, id |-> messageId]
     ELSE /\ calls' = cs
          /\ cmds' = cmds
          /\ hc' = IdleHc

\* Lines 46-49: the interval timer starts a health check. A run over at
\* most two agents ends within 2 * HealthCheckTimeout, before the next
\* interval, so runs do not overlap; the 30 s period itself is not kept.
HealthCheckStart(bad) ==
  /\ ~hc.active
  /\ HcRun(1, clientHealth, Kept, bad)
  /\ ret' = NoRet
  /\ UNCHANGED <<sock, connectedClients, activeSessions, replies, now, agent>>

\* ------------------------------------------------------- startRecording
\* startRecording that falls back to the first registered agent when
\* findBestClient returns none.
TargetClientOrFirst(clientId) ==
  IF clientId # NoClient THEN clientId
  ELSE IF findBestClient = NoClient /\ Len(connectedClients) > 0
  THEN connectedClients[1].clientId
  ELSE findBestClient

\* Lines 235-240: the agent the call goes to.
TargetClient(clientId) == IF clientId = NoClient THEN findBestClient ELSE clientId

\* Lines 232-249, up to the await: POST /api/start-recording (lines 423-439)
\* or a forwarded START_RECORDING (lines 347-354), which may name no client.
StartRecording(sessionId, clientId, throws) ==
  LET target == TargetClient(clientId) IN
  /\ UNCHANGED <<sock, connectedClients, clientHealth, activeSessions, replies, hc, now, agent>>
  /\ IF target = NoClient
     THEN /\ ret' = Ret("startRecording", sessionId, "called", ErrNoClient)
          /\ calls' = Kept
          /\ cmds' = cmds
     ELSE IF ~CanSend(target)
     THEN /\ ret' = Ret("startRecording", sessionId, "called", UnavailableError(target))
          /\ calls' = Kept
          /\ cmds' = cmds
     ELSE /\ FreeIds # {}
          /\ calls' = CallsAfter(target, WsOf(target), "START_RECORDING", sessionId,
                                 DefaultTimeout, "startRecording", throws)
          /\ cmds' = CmdsAfter(WsOf(target), "START_RECORDING", sessionId, throws)
          /\ ret' = Ret("startRecording", sessionId, "called",
                        IF throws THEN ErrSendFailed ELSE "pending")

\* Lines 251-260: the session object stored after the agent's reply.
NewSession(id) ==
  [ clientId |-> calls[id].clientId,
    status |-> "recording",
    endTime |-> <<>> ]

SessionsAfterStart(id) ==
  IF calls[id].sessionId \in DOMAIN activeSessions
  THEN [activeSessions EXCEPT ![calls[id].sessionId] = NewSession(id)]
  ELSE activeSessions @@ (calls[id].sessionId :> NewSession(id))

\* Line 252 replaces the session object of the id: a stopRecording that is
\* awaiting its reply holds the replaced object from then on.
CallsAfterStart(id, cs) ==
  [other \in Ids |->
     IF /\ cs[other].awaiter = "stopRecording"
        /\ cs[other].promise = "pending"
        /\ cs[other].sessionId = calls[id].sessionId
     THEN [cs[other] EXCEPT !.stale = TRUE]
     ELSE cs[other]]

\* startRecording that stores the session before it knows the outcome.
SessionsStoredOnFailure(id) == SessionsAfterStart(id)

\* Lines 261-264: a failed call stores nothing and rethrows.
SessionsAfterStartFailure(id) == activeSessions

\* -------------------------------------------------------- stopRecording
\* Lines 267-279, up to the await: POST /api/stop-recording (lines 441-455)
\* or a forwarded STOP_RECORDING (lines 356-358).
StopIssues(sessionId) ==
  /\ sessionId \in DOMAIN activeSessions
  /\ CanSend(activeSessions[sessionId].clientId)

StopRecording(sessionId, throws) ==
  /\ UNCHANGED <<sock, connectedClients, clientHealth, activeSessions, replies, hc, now, agent>>
  /\ IF sessionId \notin DOMAIN activeSessions
     THEN /\ ret' = Ret("stopRecording", sessionId, "called", ErrNoRecording)
          /\ calls' = Kept
          /\ cmds' = cmds
     ELSE IF ~StopIssues(sessionId)
     THEN /\ ret' = Ret("stopRecording", sessionId, "called",
                        UnavailableError(activeSessions[sessionId].clientId))
          /\ calls' = Kept
          /\ cmds' = cmds
     ELSE /\ FreeIds # {}
          /\ calls' = CallsAfter(activeSessions[sessionId].clientId,
                                 WsOf(activeSessions[sessionId].clientId),
                                 "STOP_RECORDING", sessionId, DefaultTimeout,
                                 "stopRecording", throws)
          /\ cmds' = CmdsAfter(WsOf(activeSessions[sessionId].clientId),
                               "STOP_RECORDING", sessionId, throws)
          /\ ret' = Ret("stopRecording", sessionId, "called",
                        IF throws THEN ErrSendFailed ELSE "pending")

\* Lines 281-283: the session object read before the await (line 268) is
\* updated; it is the one in the table unless a startRecording that completed
\* meanwhile replaced it (the call is then stale).
SessionsAfterStop(id) ==
  IF ~calls[id].stale
  THEN [activeSessions EXCEPT ![calls[id].sessionId] =
          [@ EXCEPT !.status = "stopped", !.endTime = <<Stamp>>]]
  ELSE activeSessions

\* stopRecording that marks the session stopped whatever the agent said.
SessionsStoppedOnFailure(id) ==
  [activeSessions EXCEPT ![calls[id].sessionId] =
     [@ EXCEPT !.status = "stopped", !.endTime = <<Stamp>>]]

\* Lines 286-289: a failed call leaves the session as it was and rethrows.
SessionsAfterStopFailure(id) == activeSessions

\* Line 285, { success: true, sessionId, ...result }: the agent's result is
\* spread last, so its success and message are the ones returned.
StopResult(data) == IF data.message = "-" THEN "ok" ELSE data.message

\* ------------------------------------- the awaiting code runs on (await)
\* cs: the calls with call id settled; ok: fulfilled; data: value or error.
Continue(id, cs, ok, data, bad) ==
  CASE calls[id].awaiter = "startRecording" ->
         /\ activeSessions' = IF ok THEN SessionsAfterStart(id)
                              ELSE SessionsAfterStartFailure(id)
         /\ ret' = Ret("startRecording", calls[id].sessionId, "settled",
                       IF ok THEN "ok" ELSE data.error)
         /\ calls' = IF ok THEN CallsAfterStart(id, cs) ELSE cs
         /\ UNCHANGED <<clientHealth, cmds, hc>>
    [] calls[id].awaiter = "stopRecording" ->
         /\ activeSessions' = IF ok THEN SessionsAfterStop(id)
                              ELSE SessionsAfterStopFailure(id)
         /\ ret' = Ret("stopRecording", calls[id].sessionId, "settled",
                       IF ok THEN StopResult(data) ELSE data.error)
         /\ calls' = cs
         /\ UNCHANGED <<clientHealth, cmds, hc>>
    [] calls[id].awaiter = "performClientHealthCheck" ->
         /\ HcRun(hc.pos + 1,
                  MapSet(clientHealth,
                         IF ok THEN HealthyRecord(calls[id].clientId, data)
                         ELSE UnhealthyRecord(calls[id].clientId, data.error)),
                  cs, bad)
         /\ ret' = NoRet
         /\ UNCHANGED activeSessions
    [] calls[id].awaiter = "registerClient" ->
         \* lines 308-315 and 74: the result is returned to nobody
         /\ calls' = cs
         /\ ret' = NoRet
         /\ UNCHANGED <<clientHealth, activeSessions, cmds, hc>>

\* ------------------------------------------------------------ the agent
\* handleServerMessage of the local client (src/unnamed/part_001, lines
\* 257-319): one RESPONSE per command that carries an id.  START_RECORDING
\* fails when FFmpeg is missing (lines 447-450); STOP_RECORDING and
\* SYSTEM_CHECK always answer success: true, and the data of STOP_RECORDING
\* is the result of stopRecording (lines 486-547): success: true after the
\* engine exited, or success: false with a message.
AgentReplies(m) ==
  CASE m.command = "START_RECORDING" ->
         { [ws |-> m.ws, id |-> m.id, success |-> TRUE, data |-> NoData],
           [ws |-> m.ws, id |-> m.id, success |-> FALSE,
            data |-> [NoData EXCEPT !.error = ErrFFmpeg]] }
    [] m.command = "STOP_RECORDING" ->
         { [ws |-> m.ws, id |-> m.id, success |-> TRUE,
            data |-> [NoData EXCEPT !.message = msg]]
           : msg \in {"-", ErrForced, ErrNoRecording} }
    [] m.command = "SYSTEM_CHECK" ->
         { [ws |-> m.ws, id |-> m.id, success |-> TRUE,
            data |-> [NoData EXCEPT !.ffmpeg = FALSE]] }
         \cup
         { [ws |-> m.ws, id |-> m.id, success |-> TRUE,
            data |-> [NoData EXCEPT !.ffmpeg = TRUE, !.audioDevices = n]]
           : n \in 1..MaxDevices }

AgentHandle(m, r) ==
  /\ sock[m.ws] = "OPEN"
  /\ cmds' = cmds \ {m}
  /\ replies' = replies \cup {r}
  /\ calls' = Kept
  /\ ret' = NoRet
  /\ UNCHANGED <<sock, connectedClients, clientHealth, activeSessions, hc, now, agent>>

\* A responseHandler that takes every RESPONSE frame of its socket.
ListeningOnSocket(r) ==
  {id \in Ids : calls[id].handler /\ calls[id].ws = r.ws}

\* ------------------------------------- responseHandler and the timeout
\* Lines 143-161: the handlers registered on the socket the frame arrives
\* on, and among them those the frame is for (line 146).
Listening(r) ==
  {id \in Ids : calls[id].handler /\ calls[id].ws = r.ws /\ id = r.id}

\* JavaScript settles a promise once: resolve and reject on a settled promise
\* change nothing.
Settle(call, ok, data) ==
  IF call.promise = "pending"
  THEN [call EXCEPT !.promise = IF ok THEN "fulfilled" ELSE "rejected", !.value = data]
  ELSE call

\* A responseHandler that resolves whatever response.success says.
AfterResponseAlwaysResolves(call, r) ==
  Settle([call EXCEPT !.responseReceived = TRUE,
                      !.handler = FALSE,
                      !.timer = IF @ = "armed" THEN "cleared" ELSE @],
         TRUE, r.data)

\* Lines 147-154 with 185-193: the matching reply.
AfterResponse(call, r) ==
  Settle([call EXCEPT !.responseReceived = TRUE,
                      !.handler = FALSE,
                      !.timer = IF @ = "armed" THEN "cleared" ELSE @],
         r.success, r.data)

\* Lines 174-179 with 190-193: the timer callback.
AfterTimeout(call) ==
  IF call.responseReceived THEN [call EXCEPT !.timer = "fired"]
  ELSE Settle([call EXCEPT !.handler = FALSE, !.timer = "fired"],
              FALSE, [NoData EXCEPT !.error = ErrTimeout])

\* A timer that may run as soon as it is armed.
TimerDueAtOnce(id) == now - calls[id].issuedAt >= 0

\* setTimeout(f, timeout) runs f no earlier than timeout ms after the call.
TimerDue(id) == now - calls[id].issuedAt >= calls[id].timeout

\* ws 'message' with type RESPONSE (lines 324-327, 384-386, 143-159).
DeliverResponse(r, bad) ==
  /\ sock[r.ws] = "OPEN"
  /\ replies' = replies \ {r}
  /\ UNCHANGED <<sock, connectedClients, now, agent>>
  /\ IF Listening(r) = {}
     THEN /\ ret' = NoRet
          /\ calls' = Kept
          /\ UNCHANGED <<clientHealth, activeSessions, cmds, hc>>
     ELSE \E id \in Listening(r) :
            IF calls[id].promise = "pending"
            THEN Continue(id, [Kept EXCEPT ![id] = AfterResponse(@, r)],
                          r.success, r.data, bad)
            ELSE /\ calls' = [Kept EXCEPT ![id] = AfterResponse(calls[id], r)]
                 /\ ret' = NoRet
                 /\ UNCHANGED <<clientHealth, activeSessions, cmds, hc>>

\* The timeout callback of call id (lines 174-179).
TimerFire(id, bad) ==
  /\ calls[id].timer = "armed"
  /\ TimerDue(id)
  /\ UNCHANGED <<sock, connectedClients, replies, now, agent>>
  /\ IF calls[id].promise = "pending" /\ ~calls[id].responseReceived
     THEN Continue(id, [Kept EXCEPT ![id] = AfterTimeout(@)],
                   FALSE, [NoData EXCEPT !.error = ErrTimeout], bad)
     ELSE /\ calls' = [Kept EXCEPT ![id] = AfterTimeout(calls[id])]
          /\ ret' = NoRet
          /\ UNCHANGED <<clientHealth, activeSessions, cmds, hc>>

\* ------------------------------------------------- the agent's engine
\* The agent's own session table and its ffmpeg processes
\* (src/unnamed/part_001).  agent[w].sessions maps a session id to the
\* process spawned for it, agent[w].procs tells whether a process was
\* spawned and whether it has exited, and agent[w].stops holds the
\* stopRecording calls that wait for the exit of their process: the message
\* id to answer, the session id, the process and the time the 5 s timer was
\* armed.

\* Line 521: the delay of forceKillTimeout.
ForceKillMs == 5000

\* sendToServer, lines 251-255: a frame is written only to an open socket.
sendToServer(w, rs) == IF sock[w] = "OPEN" THEN replies \cup rs ELSE replies

\* The RESPONSE to the command with message id `id` whose handler returned
\* `message` ("-" for a result with success: true).
Response(w, id, message) ==
  [ws |-> w, id |-> id, success |-> TRUE,
   data |-> [NoData EXCEPT !.message = message]]

\* The process ids not yet given to a spawn.
FreePids(w) == {p \in Pids : agent[w].procs[p] = "none"}

\* this.activeSessions.set(sessionId, {ffmpegProcess, ...}), lines 466-474.
AgentSessionsSet(t, sessionId, pid) ==
  [x \in DOMAIN t \cup {sessionId} |-> IF x = sessionId THEN pid ELSE t[x]]

\* A delete that leaves the table as it is.
AgentSessionsKept(t, gone) == t

\* this.activeSessions.delete(sessionId) for every id of `gone`.
AgentSessionsDelete(t, gone) == [x \in DOMAIN t \ gone |-> t[x]]

\* The restart timers after the table entries of the ids `gone` were
\* deleted or replaced: the session object a timer's callback captured
\* (line 566) is no longer the one the table holds.
Unlinked(rs, gone) ==
  {[r EXCEPT !.live = (r.live /\ r.sessionId \notin gone)] : r \in rs}

\* START_RECORDING, lines 262-270 and 445-484: without ffmpeg the command
\* fails; with it a process is spawned and stored under the session id,
\* replacing what the table held for that id.  A spawn that fails to launch
\* emits 'error', whose listener (lines 434-436) logs: the process is
\* "failed", and startRecording goes on as for one that runs.
AgentStartRecording(m, ffmpegAvailable, launchError) ==
  /\ m.command = "START_RECORDING"
  /\ sock[m.ws] = "OPEN"
  /\ cmds' = cmds \ {m}
  /\ IF ffmpegAvailable
     THEN /\ FreePids(m.ws) # {}
          /\ LET pid == CHOOSE p \in FreePids(m.ws) :
                          \A q \in FreePids(m.ws) : p <= q IN
             agent' = [agent EXCEPT
                         ![m.ws].procs[pid] =
                            IF launchError THEN "failed" ELSE "running",
                         ![m.ws].sessions =
                            AgentSessionsSet(@, m.sessionId, pid),
                         ![m.ws].restarts = Unlinked(@, {m.sessionId})]
          /\ replies' = sendToServer(m.ws, {Response(m.ws, m.id, "-")})
     ELSE /\ UNCHANGED agent
          /\ replies' = sendToServer(m.ws,
               {[ws |-> m.ws, id |-> m.id, success |-> FALSE,
                 data |-> [NoData EXCEPT !.error = ErrFFmpeg]]})
  /\ calls' = Kept
  /\ ret' = NoRet
  /\ UNCHANGED <<sock, connectedClients, clientHealth, activeSessions, hc, now>>

\* STOP_RECORDING, lines 272-274 and 486-521: an id the table does not hold
\* is answered at once; otherwise 'q' is written to the process, the timer
\* is armed and the exit listener installed, and nothing is answered yet.
AgentStopRecording(m) ==
  /\ m.command = "STOP_RECORDING"
  /\ sock[m.ws] = "OPEN"
  /\ cmds' = cmds \ {m}
  /\ IF m.sessionId \notin DOMAIN agent[m.ws].sessions
     THEN /\ replies' = sendToServer(m.ws, {Response(m.ws, m.id, ErrNoRecording)})
          /\ UNCHANGED agent
     ELSE /\ agent' = [agent EXCEPT ![m.ws].stops = @ \cup
                         {[id |-> m.id, sessionId |-> m.sessionId,
                           pid |-> agent[m.ws].sessions[m.sessionId],
                           armedAt |-> now]}]
          /\ UNCHANGED replies
  /\ calls' = Kept
  /\ ret' = NoRet
  /\ UNCHANGED <<sock, connectedClients, clientHealth, activeSessions, hc, now>>

\* The stops whose exit listener is installed on process pid.
StopsOn(w, pid) == {st \in agent[w].stops : st.pid = pid}

\* The session table after the 'exit' event of process pid: the listener of
\* startFFmpegRecording (lines 438-440) logs, and the listener of every
\* waiting stopRecording (lines 523-545) deletes the id it was called with.
SessionsAfterExit(w, pid) ==
  AgentSessionsDelete(agent[w].sessions,
                      {st.sessionId : st \in StopsOn(w, pid)})

\* The 'exit' event of an ffmpeg process: written 'q', signalled, or ended
\* on its own.  Every waiting stopRecording resolves success: true.
EngineExit(w, pid) ==
  /\ agent[w].procs[pid] = "running"
  /\ agent' = [agent EXCEPT
                 ![w].procs[pid] = "exited",
                 ![w].sessions = SessionsAfterExit(w, pid),
                 ![w].stops = @ \ StopsOn(w, pid),
                 ![w].restarts =
                    Unlinked(@, {st.sessionId : st \in StopsOn(w, pid)})]
  /\ replies' = sendToServer(w, {Response(w, st.id, "-") : st \in StopsOn(w, pid)})
  /\ calls' = Kept
  /\ ret' = NoRet
  /\ UNCHANGED <<sock, connectedClients, clientHealth, activeSessions, cmds, hc, now>>

\* forceKillTimeout, lines 506-521: the process is signalled, the session id
\* deleted, and the stop resolves success: false.
ForceKill(w, st) ==
  /\ st \in agent[w].stops
  /\ now - st.armedAt >= ForceKillMs
  /\ agent' = [agent EXCEPT
                 ![w].sessions = AgentSessionsDelete(@, {st.sessionId}),
                 ![w].stops = @ \ {st},
                 ![w].restarts = Unlinked(@, {st.sessionId})]
  /\ replies' = sendToServer(w, {Response(w, st.id, ErrForced)})
  /\ calls' = Kept
  /\ ret' = NoRet
  /\ UNCHANGED <<sock, connectedClients, clientHealth, activeSessions, cmds, hc, now>>

\* Line 585: the delay between writing 'q' to the old process and spawning
\* the new one.
RestartDelayMs == 1000

\* restartRecordingForSession, lines 565-586, for every id of `ids`: 'q' is
\* written to the session's process and a timer is set whose callback holds
\* the session object read at line 566.
RestartsScheduled(ids) ==
  {[sessionId |-> s, armedAt |-> now, live |-> TRUE] : s \in ids}

\* POST /api/audio-mute, lines 122-126 and 549-563: a mute state equal to
\* the current one changes nothing; another one is stored and every
\* session of the table is restarted (no process of a session in the table
\* has `killed` set: kill() is called by forceKillTimeout only, which
\* deletes the session).  A run changes the mute state only while no
\* restart of the agent is waiting for its timer.
updateMuteState(w, isMuted) ==
  /\ sock[w] # "NONE"
  /\ agent[w].restarts = {}
  /\ agent' = IF agent[w].audioMuted = isMuted THEN agent
              ELSE [agent EXCEPT
                      ![w].audioMuted = isMuted,
                      ![w].restarts = RestartsScheduled(DOMAIN agent[w].sessions)]
  /\ calls' = Kept
  /\ ret' = NoRet
  /\ UNCHANGED <<sock, connectedClients, clientHealth, activeSessions, cmds,
                 replies, hc, now>>

\* The session table after the timer callback of restart r spawned process
\* pid (lines 580-582): the callback writes to the session object it
\* captured, which the table shows only while it still holds that object.
SessionsAfterRestart(t, r, pid) ==
  IF r.live /\ r.sessionId \in DOMAIN t
  THEN AgentSessionsSet(t, r.sessionId, pid)
  ELSE t

\* The timer callback of restartRecordingForSession, lines 576-585: it
\* spawns a process for the session id without looking the id up again.
RestartTimerFire(w, r, launchError) ==
  /\ r \in agent[w].restarts
  /\ now - r.armedAt >= RestartDelayMs
  /\ FreePids(w) # {}
  /\ LET pid == CHOOSE p \in FreePids(w) : \A q \in FreePids(w) : p <= q IN
       agent' = [agent EXCEPT
                   ![w].procs[pid] = IF launchError THEN "failed" ELSE "running",
                   ![w].sessions = SessionsAfterRestart(@, r, pid),
                   ![w].restarts = @ \ {r}]
  /\ calls' = Kept
  /\ ret' = NoRet
  /\ UNCHANGED <<sock, connectedClients, clientHealth, activeSessions, cmds,
                 replies, hc, now>>

\* ------------------------------------------------------------------ Next
\* The sockets whose send raises during one step of the health check loop,
\* in a run whose sends raise as F says.
BadSets(W, F) == IF TRUE \in F THEN SUBSET W ELSE {{}}

\* A step of a run in which the calls alive at the same time carry the
\* message ids K.
Within(K) == \A id \in Ids \ K : calls'[id].promise = "unused"

\* The steps of a run over sockets W, agent ids C and session ids S in which
\* the calls that are alive at the same time carry the message ids K, and
\* client.ws.send raises (TRUE) or not (FALSE) as F allows.
NextOver(W, C, S, K, F) ==
  \/ \E w \in W : Connect(w)
  \/ \E w \in W : CloseSocket(w)
  \/ \E w \in W, c \in C, throws \in F : RegisterClient(w, c, throws) /\ Within(K)
  \/ Tick
  \/ \E bad \in BadSets(W, F) : HealthCheckStart(bad) /\ Within(K)
  \/ \E s \in S, c \in C \cup {NoClient}, throws \in F :
       StartRecording(s, c, throws) /\ Within(K)
  \/ \E s \in S, throws \in F : StopRecording(s, throws) /\ Within(K)
  \/ \E m \in cmds : \E r \in AgentReplies(m) : AgentHandle(m, r)
  \/ \E r \in replies, bad \in BadSets(W, F) : DeliverResponse(r, bad) /\ Within(K)
  \/ \E id \in Ids, bad \in BadSets(W, F) : TimerFire(id, bad) /\ Within(K)

\* removeClient is called by nothing in the server; a program that holds the
\* exported GlobalMeetRecorderBackend can call it.
NextEvictOver(W, C, S, K, F) ==
  \/ NextOver(W, C, S, K, F)
  \/ \E c \in C : RemoveClient(c)

\* The server without the health monitor: requests,
\* registrations, replies and timeouts only.
NextChannelOver(W, C, S, K, F) ==
  \/ \E w \in W : Connect(w)
  \/ \E w \in W : CloseSocket(w)
  \/ \E w \in W, c \in C, throws \in F : RegisterClient(w, c, throws) /\ Within(K)
  \/ Tick
  \/ \E s \in S, c \in C, throws \in F : StartRecording(s, c, throws) /\ Within(K)
  \/ \E s \in S, throws \in F : StopRecording(s, throws) /\ Within(K)
  \/ \E m \in cmds : \E r \in AgentReplies(m) : AgentHandle(m, r)
  \/ \E r \in replies : DeliverResponse(r, {})
  \/ \E id \in Ids : TimerFire(id, {})

\* One agent on one connection, one session id, two calls alive at a time.
Next == NextOver({"w1"}, {"A"}, {"s1"}, {1, 2}, {FALSE})

Spec == Init /\ [][Next]_vars

\* The server whose recordings are all started without a pinned agent, so
\* that findBestClient chooses, and are never stopped.
NextAgentsOver(W, C, S, K, F) ==
  \/ \E w \in W : Connect(w)
  \/ \E w \in W : CloseSocket(w)
  \/ \E w \in W, c \in C, throws \in F : RegisterClient(w, c, throws) /\ Within(K)
  \/ Tick
  \/ \E bad \in BadSets(W, F) : HealthCheckStart(bad) /\ Within(K)
  \/ \E s \in S, throws \in F : StartRecording(s, NoClient, throws) /\ Within(K)
  \/ \E m \in cmds : \E r \in AgentReplies(m) : AgentHandle(m, r)
  \/ \E r \in replies, bad \in BadSets(W, F) : DeliverResponse(r, bad) /\ Within(K)
  \/ \E id \in Ids, bad \in BadSets(W, F) : TimerFire(id, bad) /\ Within(K)

\* Two agent ids registered over one connection, two calls alive at a time.
NextAgents == NextAgentsOver({"w1"}, Clients, {"s1"}, {1, 2}, {FALSE})

SpecAgents == Init /\ [][NextAgents]_vars

\* The server with removeClient called from outside.
NextEvict == NextEvictOver({"w1"}, {"A"}, {"s1"}, {1, 2}, {FALSE})

SpecEvict == Init /\ [][NextEvict]_vars

\* Two agent ids registered over one connection, two calls alive at a time,
\* no health monitor.
NextChannel == NextChannelOver({"w1"}, Clients, {"s1"}, {1, 2}, {FALSE})

SpecChannel == Init /\ [][NextChannel]_vars

\* One agent on one connection, no health monitor, and client.ws.send may
\* raise.
NextSend == NextChannelOver({"w1"}, {"A"}, {"s1"}, {1, 2}, BOOLEAN)

SpecSend == Init /\ [][NextSend]_vars

\* The registry alone: connections, registrations, removals and the health
\* monitor, with no recording requested.
NextRegistryOver(W, C, K, F) ==
  \/ \E w \in W : Connect(w)
  \/ \E w \in W : CloseSocket(w)
  \/ \E w \in W, c \in C, throws \in F : RegisterClient(w, c, throws) /\ Within(K)
  \/ \E c \in C : RemoveClient(c)
  \/ Tick
  \/ \E bad \in BadSets(W, F) : HealthCheckStart(bad) /\ Within(K)
  \/ \E m \in cmds : \E r \in AgentReplies(m) : AgentHandle(m, r)
  \/ \E r \in replies, bad \in BadSets(W, F) : DeliverResponse(r, bad) /\ Within(K)
  \/ \E id \in Ids, bad \in BadSets(W, F) : TimerFire(id, bad) /\ Within(K)

\* One agent id that registers over two connections.
NextRegistry == NextRegistryOver(Sockets, {"A"}, {1, 2}, {FALSE})

SpecRegistry == Init /\ [][NextRegistry]_vars

\* The server without the health monitor, in front of agents whose ffmpeg
\* processes are modelled: a stop is answered when the process exits or
\* when the agent's timer fires.
NextEngineOver(W, C, S, K) ==
  \/ \E w \in W : Connect(w)
  \/ \E w \in W : CloseSocket(w)
  \/ \E w \in W, c \in C : RegisterClient(w, c, FALSE) /\ Within(K)
  \/ Tick
  \/ \E s \in S, c \in C : StartRecording(s, c, FALSE) /\ Within(K)
  \/ \E s \in S : StopRecording(s, FALSE) /\ Within(K)
  \/ \E m \in cmds, ffmpegAvailable \in BOOLEAN, launchError \in BOOLEAN :
       AgentStartRecording(m, ffmpegAvailable, launchError)
  \/ \E m \in cmds : AgentStopRecording(m)
  \/ \E m \in cmds : /\ m.command = "SYSTEM_CHECK"
                      /\ \E r \in AgentReplies(m) : AgentHandle(m, r)
  \/ \E w \in W, pid \in Pids : EngineExit(w, pid)
  \/ \E w \in W : \E st \in agent[w].stops : ForceKill(w, st)
  \/ \E r \in replies : DeliverResponse(r, {})
  \/ \E id \in Ids : TimerFire(id, {})

\* One agent on one connection, one session id, two calls alive at a time.
NextEngine == NextEngineOver({"w1"}, {"A"}, {"s1"}, {1, 2})

SpecEngine == Init /\ [][NextEngine]_vars

\* Agents that stay connected and answer before any timeout, probed by the
\* health monitor, and recordings started without a pinned agent.
NextGreedyOver(W, C, S, K) ==
  \/ \E w \in W : Connect(w)
  \/ \E w \in W, c \in C : RegisterClient(w, c, FALSE) /\ Within(K)
  \/ HealthCheckStart({}) /\ Within(K)
  \/ \E s \in S : StartRecording(s, NoClient, FALSE) /\ Within(K)
  \/ \E m \in cmds : \E r \in AgentReplies(m) : AgentHandle(m, r)
  \/ \E r \in replies : DeliverResponse(r, {}) /\ Within(K)

\* Two agent ids on one connection, two session ids, two calls alive at a
\* time.
NextGreedy == NextGreedyOver({"w1"}, Clients, SessionIds, {1, 2})

SpecGreedy == Init /\ [][NextGreedy]_vars

\* The agent's engine in front of a server whose connection stays open and
\* whose calls do not time out.  Time passes and a timer of the agent that is
\* due runs: setTimeout callbacks are not starved by the event loop.
NextStopOver(W, C, S, K) ==
  \/ \E w \in W : Connect(w)
  \/ \E w \in W, c \in C : RegisterClient(w, c, FALSE) /\ Within(K)
  \/ Tick
  \/ \E s \in S, c \in C : StartRecording(s, c, FALSE) /\ Within(K)
  \/ \E s \in S : StopRecording(s, FALSE) /\ Within(K)
  \/ \E m \in cmds, ffmpegAvailable \in BOOLEAN, launchError \in BOOLEAN :
       AgentStartRecording(m, ffmpegAvailable, launchError)
  \/ \E m \in cmds : AgentStopRecording(m)
  \/ \E m \in cmds : /\ m.command = "SYSTEM_CHECK"
                      /\ \E r \in AgentReplies(m) : AgentHandle(m, r)
  \/ \E w \in W, pid \in Pids : EngineExit(w, pid)
  \/ \E w \in W : \E st \in agent[w].stops : ForceKill(w, st)
  \/ \E r \in replies : DeliverResponse(r, {})

NextStop == NextStopOver({"w1"}, {"A"}, {"s1"}, {1, 2})

ForceKillDue == \E w \in Sockets : \E st \in agent[w].stops : ForceKill(w, st)

SpecStop ==
  Init /\ [][NextStop]_vars /\ WF_vars(Tick) /\ WF_vars(ForceKillDue)

\* No restart timer is past its delay.
NoRestartDue ==
  \A w \in Sockets : \A r \in agent[w].restarts : now - r.armedAt < RestartDelayMs

\* The agent's engine with the mute endpoint: the audio mute state changes
\* while sessions are recorded and stopped.  The event loop runs the timers
\* that are due before it takes the next message, exit event or request,
\* so a restart timer past its delay runs before anything else happens.
NextMuteOver(W, C, S, K) ==
  \/ \E w \in W : Connect(w) /\ NoRestartDue
  \/ \E w \in W, c \in C : RegisterClient(w, c, FALSE) /\ Within(K) /\ NoRestartDue
  \/ Tick /\ NoRestartDue
  \/ \E s \in S, c \in C : StartRecording(s, c, FALSE) /\ Within(K) /\ NoRestartDue
  \/ \E s \in S : StopRecording(s, FALSE) /\ Within(K) /\ NoRestartDue
  \/ \E m \in cmds, ffmpegAvailable \in BOOLEAN, launchError \in BOOLEAN :
       AgentStartRecording(m, ffmpegAvailable, launchError) /\ NoRestartDue
  \/ \E m \in cmds : AgentStopRecording(m) /\ NoRestartDue
  \/ \E m \in cmds : /\ m.command = "SYSTEM_CHECK"
                      /\ NoRestartDue
                      /\ \E r \in AgentReplies(m) : AgentHandle(m, r)
  \/ \E w \in W, pid \in Pids : EngineExit(w, pid) /\ NoRestartDue
  \/ \E w \in W : \E st \in agent[w].stops : ForceKill(w, st) /\ NoRestartDue
  \/ \E r \in replies : DeliverResponse(r, {}) /\ NoRestartDue
  \/ \E w \in W, isMuted \in BOOLEAN : updateMuteState(w, isMuted)
  \/ \E w \in W, launchError \in BOOLEAN :
       \E r \in agent[w].restarts : RestartTimerFire(w, r, launchError)

NextMute == NextMuteOver({"w1"}, {"A"}, {"s1"}, {1, 2})

SpecMute == Init /\ [][NextMute]_vars

\* ------------------------------------- findBestClient over drawn inputs
\* The session ids of the drawn session tables.
SessionPool ==
  <<"s1", "s2", "s3", "s4", "s5", "s6", "s7", "s8", "s9", "s10", "s11", "s12",
    "s13", "s14">>

\* The health records performClientHealthCheck and registerClient write for
\* an agent, written at time 0: unhealthy, registered and unprobed, or
\* healthy with what a SYSTEM_CHECK reply reports.
HealthChoices(clientId) ==
  { [UnhealthyRecord(clientId, ErrTimeout) EXCEPT !.lastHealthCheck = 0],
    [InitialHealth(clientId) EXCEPT !.lastHealthCheck = 0] }
  \cup
  { [HealthyRecord(clientId, r.data) EXCEPT !.lastHealthCheck = 0] :
      r \in AgentReplies([ws |-> "w1", id |-> 1, command |-> "SYSTEM_CHECK",
                          sessionId |-> NoSession]) }

\* A session table with nA sessions of agent A and nB of agent B, all
\* recording but for the first of them when `stopped` says so.
LoadedSessions(nA, nB, stopped) ==
  [x \in {SessionPool[i] : i \in 1..(nA + nB)} |->
     LET i == CHOOSE j \in 1..(nA + nB) : SessionPool[j] = x IN
     [clientId |-> IF i <= nA THEN "A" ELSE "B",
      status |-> IF stopped /\ i = 1 THEN "stopped" ELSE "recording",
      endTime |-> <<>>]]

\* The registry and the health table in one of the orders the agents can
\* have registered in, with the agents of `reg` still connected.
RegistryOf(order, reg) ==
  SelectSeq([i \in 1..Len(order) |-> ClientEntry("w1", order[i])],
            LAMBDA e : e.clientId \in reg)

InitSelect ==
  /\ now \in {0, RecencyWindow}
  /\ sock = [w \in Sockets |-> IF w = "w1" THEN "OPEN" ELSE "NONE"]
  /\ \E order \in {<<"A", "B">>, <<"B", "A">>}, reg \in SUBSET Clients :
       /\ connectedClients = RegistryOf(order, reg)
       /\ \E hA \in HealthChoices("A"), hB \in HealthChoices("B") :
            clientHealth = [i \in 1..2 |-> IF order[i] = "A" THEN hA ELSE hB]
  /\ \E nA \in 0..MaxLoad, nB \in 0..1, stopped \in BOOLEAN :
       activeSessions = LoadedSessions(nA, nB, stopped)
  /\ calls = [id \in Ids |-> Unused]
  /\ cmds = {}
  /\ replies = {}
  /\ hc = IdleHc
  /\ ret = NoRet
  /\ agent = [w \in Sockets |-> NoAgent]

\* startRecording without a pinned agent, which calls findBestClient.
NextSelect == \E s \in {"s1"} : StartRecording(s, NoClient, FALSE) /\ Within({1, 2})

SpecSelect == InitSelect /\ [][NextSelect]_vars

\* ================================================================ claims
\* C1: when the connection of a registered agent closes, every session
\* assigned to that agent whose status is recording becomes
\* client_disconnected, and getActiveRecordings no longer lists it.
C1_CloseDisconnectsSessions ==
  [][\A w \in Sockets :
       (sock[w] = "OPEN" /\ sock'[w] = "CLOSED") =>
         \A s \in DOMAIN activeSessions :
           ( /\ activeSessions[s].status = "recording"
             /\ MapHas(connectedClients, activeSessions[s].clientId)
             /\ WsOf(activeSessions[s].clientId) = w )
           => /\ s \in DOMAIN activeSessions'
              /\ activeSessions'[s].status = "client_disconnected"
              /\ s \notin getActiveRecordings']_vars

\* C2: in every state, a session whose status is recording is assigned to an
\* agent that is in the registry connectedClients.
C2_RecordingAgentRegistered ==
  \A s \in DOMAIN activeSessions :
    activeSessions[s].status = "recording"
    => MapHas(connectedClients, activeSessions[s].clientId)

\* C3: no step takes a session whose status is stopped or client_disconnected
\* to another status, or removes it.
C3_TerminalStatusIsFinal ==
  [][\A s \in DOMAIN activeSessions :
       activeSessions[s].status \in {"stopped", "client_disconnected"}
       => /\ s \in DOMAIN activeSessions'
          /\ activeSessions'[s].status = activeSessions[s].status]_vars

\* C4: stopRecording called for a session whose status is stopped or
\* client_disconnected returns without an error, sends no STOP_RECORDING
\* frame, starts no call to the agent and leaves the session, its status and
\* endTime included, as it was.
C4_StopOnTerminalDoesNothing ==
  [][\A s \in DOMAIN activeSessions :
       ( /\ activeSessions[s].status \in {"stopped", "client_disconnected"}
         /\ ret'.op = "stopRecording"
         /\ ret'.phase = "called"
         /\ ret'.sessionId = s )
       => /\ ret'.out \notin {"pending", ErrNotConnected, ErrNotReady, ErrSendFailed}
          /\ cmds' = cmds
          /\ \A id \in Ids : calls'[id].promise = "pending" => calls'[id] = calls[id]
          /\ activeSessions' = activeSessions]_vars

\* C5: a call that was sent is settled by exactly one of: the success reply
\* carrying its messageId (fulfilled with that reply's data), the failure
\* reply carrying its messageId (rejected with that reply's error), or its
\* timeout (rejected with the timeout error); once settled its outcome never
\* changes, and a pending call is never dropped.
C5_SettledOnceByReplyOrTimeout ==
  [][\A id \in Ids :
       LET call == calls[id]
           after == calls'[id]
           got == {r \in replies : r \notin replies' /\ r.id = id /\ r.ws = call.ws}
       IN /\ (call.promise = "pending" /\ after.promise = "fulfilled")
             => \E r \in got : r.success /\ after.value = r.data
          /\ (call.promise = "pending" /\ after.promise = "rejected")
             => \/ \E r \in got : ~r.success /\ after.value = r.data
                \/ got = {} /\ after.value.error = ErrTimeout
          /\ call.promise = "pending" => after.promise # "unused"
          /\ call.promise \in {"fulfilled", "rejected"}
             => /\ after.promise \in {call.promise, "unused"}
                /\ after.promise = call.promise => after.value = call.value]_vars

\* A call fulfilled by its reply while another one, rejected by its timeout,
\* still has a frame on the wire.
C5_Witness ==
  \E i, j \in Ids :
    /\ calls[i].promise = "fulfilled"
    /\ calls[j].promise = "rejected"
    /\ calls[j].value.error = ErrTimeout
    /\ \E r \in replies : r.id = j

\* C6: a pending call that is settled by a step delivering no reply with its
\* messageId is rejected with the timeout error, and only when at least its
\* timeout has elapsed since it was sent.
C6_TimeoutNeverEarly ==
  [][\A id \in Ids :
       ( /\ calls[id].promise = "pending"
         /\ calls'[id].promise # "pending"
         /\ ~\E r \in replies : r \notin replies' /\ r.id = id )
       => /\ calls'[id].promise = "rejected"
          /\ calls'[id].value.error = ErrTimeout
          /\ now - calls[id].issuedAt >= calls[id].timeout]_vars

\* A call rejected by its timeout exactly when the timeout has elapsed.
C6_Witness ==
  \E id \in Ids :
    /\ calls[id].promise = "rejected"
    /\ calls[id].value.error = ErrTimeout
    /\ now - calls[id].issuedAt = calls[id].timeout

\* C7: a reply delivered for a call that is no longer pending is discarded:
\* the outcome of that call stays what it was, every pending call stays
\* pending and untouched, no call appears, and the registry, the health
\* records, the sessions and the frames sent to agents are as before.
C7_LateReplyDiscarded ==
  [][\A r \in replies :
       ( /\ r \notin replies'
         /\ sock'[r.ws] = "OPEN"
         /\ calls[r.id].promise # "pending" )
       => /\ \A id \in Ids :
               /\ calls[id].promise = "pending" => calls'[id] = calls[id]
               /\ calls[id].promise = "unused" => calls'[id] = calls[id]
               /\ calls[id].promise \in {"fulfilled", "rejected"}
                  => /\ calls'[id].promise \in {calls[id].promise, "unused"}
                     /\ calls'[id].promise = calls[id].promise
                        => calls'[id].value = calls[id].value
          /\ ret' = NoRet
          /\ UNCHANGED <<connectedClients, clientHealth, activeSessions, cmds>>]_vars

\* A call rejected by its timeout whose reply has since been delivered over
\* the still open socket, while a call to the other agent id is pending.
C7_Witness ==
  \E id, other \in Ids :
    /\ calls[id].promise = "rejected"
    /\ calls[id].value.error = ErrTimeout
    /\ sock[calls[id].ws] = "OPEN"
    /\ \A m \in cmds : m.id # id
    /\ \A r \in replies : r.id # id
    /\ calls[other].promise = "pending"
    /\ calls[other].clientId # calls[id].clientId

\* C8: startRecording or stopRecording that ends with the not-connected or the
\* socket-not-ready error sends no frame, creates no call and no handler, and
\* changes neither the registry nor the health records nor the sessions; and
\* every call that is created, and every frame that is sent, is for an agent
\* that is in the registry with an OPEN socket.
C8_UnavailableAgentFailsClean ==
  [][ /\ (ret'.phase = "called" /\ ret'.out \in {ErrNotConnected, ErrNotReady})
         => /\ cmds' = cmds
            /\ replies' = replies
            /\ \A id \in Ids :
                 (calls'[id].promise = "pending" \/ calls'[id].handler)
                 => calls'[id] = calls[id]
            /\ UNCHANGED <<sock, connectedClients, clientHealth, activeSessions, hc>>
      /\ \A id \in Ids :
           (calls[id].promise = "unused" /\ calls'[id].promise # "unused")
           => \E i \in 1..Len(connectedClients') :
                /\ connectedClients'[i].clientId = calls'[id].clientId
                /\ connectedClients'[i].ws = calls'[id].ws
                /\ connectedClients'[i].connected
                /\ sock'[calls'[id].ws] = "OPEN"
      /\ \A m \in cmds' : m \notin cmds => sock'[m.ws] = "OPEN" ]_vars

\* A request that failed at once because the agent it names is in the
\* registry with a socket that is not OPEN.
C8_Witness ==
  /\ ret.phase = "called"
  /\ ret.out = ErrNotReady
  /\ \E i \in 1..Len(connectedClients) : sock[connectedClients[i].ws] = "CLOSED"

\* C9: findBestClient returns no agent, or the id of an agent that has a health
\* record with status healthy and ffmpegAvailable true and that is in the
\* registry connectedClients.
C9_BestClientEligible ==
  LET best == findBestClient
  IN best # NoClient
     => /\ \E i \in 1..Len(clientHealth) :
             /\ clientHealth[i].clientId = best
             /\ clientHealth[i].status = "healthy"
             /\ clientHealth[i].ffmpegAvailable
        /\ \E j \in 1..Len(connectedClients) : connectedClients[j].clientId = best

\* findBestClient returns an agent while the health map also holds a healthy
\* record with ffmpeg of an agent that is no longer in the registry.
C9_Witness ==
  /\ findBestClient # NoClient
  /\ \E i \in 1..Len(clientHealth) :
       /\ clientHealth[i].status = "healthy"
       /\ clientHealth[i].ffmpegAvailable
       /\ \A j \in 1..Len(connectedClients) :
            connectedClients[j].clientId # clientHealth[i].clientId

\* C10: when the agent's reply to START_RECORDING reports a failure,
\* startRecording ends with that reply's error and the session table is what
\* it was before: the attempt leaves no session of its own in recording, and
\* no session ever has the status delegating.
C10_FailedStartStoresNothing ==
  [][\A r \in replies :
       ( /\ r \notin replies'
         /\ sock'[r.ws] = "OPEN"
         /\ ~r.success
         /\ calls[r.id].promise = "pending"
         /\ calls[r.id].awaiter = "startRecording" )
       => /\ ret' = Ret("startRecording", calls[r.id].sessionId, "settled",
                        r.data.error)
          /\ activeSessions' = activeSessions
          /\ \A s \in DOMAIN activeSessions' :
               activeSessions'[s].status # "delegating"]_vars

\* startRecording has just failed with the agent's error and the session id
\* it was called with is not in the table.
C10_Witness ==
  /\ ret.op = "startRecording"
  /\ ret.phase = "settled"
  /\ ret.out = ErrFFmpeg
  /\ ret.sessionId \notin DOMAIN activeSessions

\* C11: when the STOP_RECORDING call of stopRecording fails (the agent is not
\* available, the send raises, the reply reports a failure or the call times
\* out), stopRecording ends with that error and the session table, status
\* and endTime of the session included, is what it was.
C11_FailedStopLeavesSession ==
  [][ /\ ( /\ ret'.op = "stopRecording"
           /\ ret'.phase = "called"
           /\ ret'.out \in {ErrNotConnected, ErrNotReady, ErrSendFailed} )
         => activeSessions' = activeSessions
      /\ \A id \in Ids :
           ( /\ calls[id].promise = "pending"
             /\ calls[id].awaiter = "stopRecording"
             /\ calls'[id].promise = "rejected" )
           => /\ ret' = Ret("stopRecording", calls[id].sessionId, "settled",
                            calls'[id].value.error)
              /\ activeSessions' = activeSessions
      /\ \A id \in Ids :
           ( /\ calls[id].promise = "unused"
             /\ calls'[id].awaiter = "stopRecording"
             /\ calls'[id].promise = "rejected" )
           => /\ ret' = Ret("stopRecording", calls'[id].sessionId, "called",
                            calls'[id].value.error)
              /\ activeSessions' = activeSessions ]_vars

\* stopRecording has just failed with the timeout of its call and the
\* session is still recording.
C11_Witness ==
  /\ ret.op = "stopRecording"
  /\ ret.phase = "settled"
  /\ ret.out = ErrTimeout
  /\ ret.sessionId \in DOMAIN activeSessions
  /\ activeSessions[ret.sessionId].status = "recording"
  /\ activeSessions[ret.sessionId].endTime = <<>>

\* C13: removeClient(c) deletes the registry entry and the health record of c
\* and sets to client_disconnected exactly the sessions of c whose status is
\* recording or delegating: a step that deletes the health record of c also
\* deletes its registry entry and disconnects its recording sessions, and a
\* session of another agent, or one in another status, is never changed by
\* a step that disconnects sessions.
C13_RemoveDisconnectsOnlyLive ==
  [][ /\ \A c \in Clients :
           (MapHas(clientHealth, c) /\ ~MapHas(clientHealth', c))
           => /\ ~MapHas(connectedClients', c)
              /\ \A s \in DOMAIN activeSessions :
                   IF /\ activeSessions[s].clientId = c
                      /\ activeSessions[s].status \in {"recording", "delegating"}
                   THEN activeSessions'[s] =
                          [activeSessions[s] EXCEPT !.status = "client_disconnected"]
                   ELSE activeSessions'[s] = activeSessions[s]
      /\ \A s \in DOMAIN activeSessions :
           ( /\ s \in DOMAIN activeSessions'
             /\ activeSessions'[s].status = "client_disconnected"
             /\ activeSessions[s].status # "client_disconnected" )
           => activeSessions[s].status \in {"recording", "delegating"} ]_vars

\* C14: in every state the registry connectedClients holds no entry whose ws
\* is a socket that has closed, also when several agent ids were registered
\* over that socket.
C14_NoEntryOnClosedSocket ==
  \A i \in 1..Len(connectedClients) : sock[connectedClients[i].ws] # "CLOSED"

\* C15: after every step the registry and the health map hold at most one
\* entry per agent id; and a step that registers an id leaves exactly one
\* registry entry for it, with the socket of this registration, and exactly
\* one health record for it, healthy with ffmpegAvailable false.
C15_OneRecordPerAgent ==
  [][ /\ \A i, j \in 1..Len(connectedClients') :
           connectedClients'[i].clientId = connectedClients'[j].clientId => i = j
      /\ \A i, j \in 1..Len(clientHealth') :
           clientHealth'[i].clientId = clientHealth'[j].clientId => i = j
      /\ \A id \in Ids :
           ( /\ calls[id].promise = "unused"
             /\ calls'[id].promise # "unused"
             /\ calls'[id].awaiter = "registerClient" )
           => /\ Cardinality({i \in 1..Len(connectedClients') :
                   connectedClients'[i].clientId = calls'[id].clientId}) = 1
              /\ \A i \in 1..Len(connectedClients') :
                   connectedClients'[i].clientId = calls'[id].clientId
                   => connectedClients'[i].ws = calls'[id].ws
              /\ Cardinality({i \in 1..Len(clientHealth') :
                   clientHealth'[i].clientId = calls'[id].clientId}) = 1
              /\ \A i \in 1..Len(clientHealth') :
                   clientHealth'[i].clientId = calls'[id].clientId
                   => /\ clientHealth'[i].status = "healthy"
                      /\ ~clientHealth'[i].ffmpegAvailable
                      /\ clientHealth'[i].lastHealthCheck = now ]_vars

\* The probes of two registrations of the same id over different sockets are
\* both pending, and the registry holds the id once, with the second socket.
C15_Witness ==
  /\ calls[1].promise = "pending" /\ calls[1].awaiter = "registerClient"
  /\ calls[2].promise = "pending" /\ calls[2].awaiter = "registerClient"
  /\ calls[1].clientId = calls[2].clientId
  /\ calls[1].ws # calls[2].ws
  /\ Len(connectedClients) = 1
  /\ connectedClients[1].clientId = calls[2].clientId
  /\ connectedClients[1].ws = calls[2].ws
  /\ Len(clientHealth) = 1

\* C16: startRecording called with no agent named, in a state where
\* findBestClient returns none, ends at once with the no-healthy-clients
\* error, sends no frame, creates no call and leaves the session table, the
\* registry and the health map as they were.  (Every startRecording of
\* SpecAgents names no agent.)
C16_NoAgentNoStart ==
  [][( /\ ret'.op = "startRecording"
       /\ ret'.phase = "called"
       /\ findBestClient = NoClient )
     => /\ ret'.out = ErrNoClient
        /\ cmds' = cmds
        /\ replies' = replies
        /\ \A id \in Ids :
             (calls'[id].promise = "pending" \/ calls'[id].handler)
             => calls'[id] = calls[id]
        /\ UNCHANGED <<activeSessions, connectedClients, clientHealth, sock>>]_vars

\* startRecording has just failed for want of an eligible agent although an
\* agent is registered with an OPEN socket.
C16_Witness ==
  /\ ret.op = "startRecording"
  /\ ret.phase = "called"
  /\ ret.out = ErrNoClient
  /\ \E i \in 1..Len(connectedClients) : sock[connectedClients[i].ws] = "OPEN"

\* C17: stopRecording called with a session id that is not in activeSessions
\* ends at once with a failure result (neither a success nor a pending
\* call), sends no frame, creates no call and leaves the sessions, the
\* registry and the health map as they were.
C17_UnknownSessionStop ==
  [][( /\ ret'.op = "stopRecording"
       /\ ret'.phase = "called"
       /\ ret'.sessionId \notin DOMAIN activeSessions )
     => /\ ret'.out \notin {"ok", "pending"}
        /\ ret'.out = ErrNoRecording
        /\ cmds' = cmds
        /\ replies' = replies
        /\ \A id \in Ids :
             (calls'[id].promise = "pending" \/ calls'[id].handler)
             => calls'[id] = calls[id]
        /\ UNCHANGED <<activeSessions, connectedClients, clientHealth, sock, hc>>]_vars

\* stopRecording has just been refused for an id that is not in the table,
\* while the agent is registered, its socket OPEN and a call to it pending.
C17_Witness ==
  /\ ret.op = "stopRecording"
  /\ ret.phase = "called"
  /\ ret.sessionId \notin DOMAIN activeSessions
  /\ \E i \in 1..Len(connectedClients) : sock[connectedClients[i].ws] = "OPEN"
  /\ \E id \in Ids : calls[id].promise = "pending"

\* C18: the step in which a run of performClientHealthCheck starts sends the
\* SYSTEM_CHECK of every registered agent whose socket is OPEN: after it a
\* health-check call is pending for each of them, whatever becomes of the
\* calls to the others.  (Stated for runs that start with no other call
\* alive.)
C18_ProbesIssuedTogether ==
  [][(~hc.active /\ hc'.active /\ \A id \in Ids : calls[id].promise = "unused")
     => \A i \in 1..Len(connectedClients) :
          sock[connectedClients[i].ws] = "OPEN"
          => \E id \in Ids :
               /\ calls'[id].promise = "pending"
               /\ calls'[id].awaiter = "performClientHealthCheck"
               /\ calls'[id].clientId = connectedClients[i].clientId]_vars

\* C19: a health-check call that is rejected leaves the agent's health record
\* unhealthy with the error and nothing else (no ffmpegAvailable, no
\* audioDevices); one that is fulfilled leaves it healthy with the
\* ffmpegAvailable and audioDevices of that reply; every unhealthy record in
\* the map carries no capability and its agent is not what findBestClient
\* returns; and a record becomes healthy with ffmpegAvailable only in a step
\* that fulfils a health-check call to that agent.
C19_ProbeOutcomeRecorded ==
  [][ /\ \A id \in Ids :
           ( /\ calls[id].promise = "pending"
             /\ calls[id].awaiter = "performClientHealthCheck"
             /\ calls'[id].promise \in {"fulfilled", "rejected"} )
           => /\ MapHas(clientHealth', calls[id].clientId)
              /\ LET rec == MapGet(clientHealth', calls[id].clientId)
                     val == calls'[id].value
                 IN IF calls'[id].promise = "rejected"
                    THEN /\ rec.status = "unhealthy"
                         /\ rec.fields = {"error"}
                         /\ rec.error = val.error
                         /\ ~rec.ffmpegAvailable
                         /\ rec.audioDevices = 0
                         /\ rec.lastHealthCheck = now
                    ELSE /\ rec.status = "healthy"
                         /\ rec.ffmpegAvailable = val.ffmpeg
                         /\ rec.audioDevices = val.audioDevices
                         /\ rec.lastHealthCheck = now
      /\ \A i \in 1..Len(clientHealth') :
           clientHealth'[i].status = "unhealthy"
           => /\ clientHealth'[i].fields = {"error"}
              /\ ~clientHealth'[i].ffmpegAvailable
              /\ clientHealth'[i].audioDevices = 0
              /\ findBestClient' # clientHealth'[i].clientId
      /\ \A i \in 1..Len(clientHealth') :
           ( /\ clientHealth'[i].status = "healthy"
             /\ clientHealth'[i].ffmpegAvailable
             /\ ~\E j \in 1..Len(clientHealth) : clientHealth[j] = clientHealth'[i] )
           => \E id \in Ids :
                /\ calls[id].promise = "pending"
                /\ calls[id].awaiter = "performClientHealthCheck"
                /\ calls[id].clientId = clientHealth'[i].clientId
                /\ calls'[id].promise = "fulfilled" ]_vars

\* An agent has failed a probe by timeout: its record is unhealthy and the
\* agent, still registered with an OPEN socket, is not chosen.
C19_Witness ==
  \E i \in 1..Len(clientHealth) :
    /\ clientHealth[i].status = "unhealthy"
    /\ clientHealth[i].error = ErrTimeout
    /\ \E j \in 1..Len(connectedClients) :
         /\ connectedClients[j].clientId = clientHealth[i].clientId
         /\ sock[connectedClients[j].ws] = "OPEN"
    /\ findBestClient = NoClient

\* C12: when the engine process has not exited 5 seconds after the
\* graceful-stop request, the agent force-terminates it and answers the stop
\* with a result that is a success (flagged as forced), never a failure; and
\* the server's stopRecording that receives this answer moves the session to
\* stopped and returns a success.
C12_ForcedStopReportedAsSuccess ==
  [][/\ \A w \in Sockets : \A st \in agent[w].stops :
          ( /\ now - st.armedAt >= ForceKillMs
            /\ st \notin agent'[w].stops
            /\ agent[w].procs[st.pid] = "running"
            /\ agent'[w].procs[st.pid] = "running"
            /\ sock[w] = "OPEN" )
          => \E r \in replies' :
               r.ws = w /\ r.id = st.id /\ r.success /\ r.data.message = "-"
     /\ \A r \in replies \ replies' :
          ( /\ r.data.message = ErrForced
            /\ ret'.op = "stopRecording"
            /\ ret'.phase = "settled"
            /\ calls[r.id].promise = "pending"
            /\ calls[r.id].command = "STOP_RECORDING"
            /\ calls[r.id].ws = r.ws )
          => /\ ret'.out = "ok"
             /\ ret'.sessionId \in DOMAIN activeSessions'
             /\ activeSessions'[ret'.sessionId].status = "stopped"]_vars

\* C20: when an ffmpeg process of the agent exits while no stopRecording is
\* waiting for it, every session id the agent's table holds for that process
\* is removed from the table in that step.
C20_ExitReleasesSession ==
  [][\A w \in Sockets : \A pid \in Pids :
       ( /\ agent[w].procs[pid] = "running"
         /\ agent'[w].procs[pid] = "exited"
         /\ StopsOn(w, pid) = {} )
       => \A x \in DOMAIN agent[w].sessions :
            agent[w].sessions[x] = pid => x \notin DOMAIN agent'[w].sessions]_vars

\* C21: when the spawn of the ffmpeg process for a START_RECORDING command
\* fails to launch, the agent answers the command with a failure and its
\* session table holds no entry for the session id afterwards.
C21_LaunchErrorFailsStart ==
  [][\A w \in Sockets : \A pid \in Pids :
       ( /\ agent[w].procs[pid] = "none"
         /\ agent'[w].procs[pid] = "failed"
         /\ sock[w] = "OPEN" )
       => \E m \in cmds \ cmds' :
            /\ m.ws = w
            /\ m.command = "START_RECORDING"
            /\ \E r \in replies' : r.ws = w /\ r.id = m.id /\ ~r.success
            /\ m.sessionId \notin DOMAIN agent'[w].sessions]_vars

\* C22: a RESPONSE frame delivered to the server settles no call but the one
\* whose messageId it carries: every other pending call stays pending with its handler and its
\* timer, whatever the order the calls were sent in, and the call it is for
\* settles with the frame's own success flag and data.
C22_ReplyMatchedByIdOnly ==
  [][\A r \in replies \ replies' :
       sock'[r.ws] = "OPEN" =>
         /\ \A id \in Ids \ {r.id} :
              calls[id].promise = "pending"
              => [calls'[id] EXCEPT !.stale = calls[id].stale] = calls[id]
         /\ ( /\ calls[r.id].promise = "pending"
              /\ calls[r.id].handler
              /\ calls[r.id].ws = r.ws )
            => /\ calls'[r.id].promise = IF r.success THEN "fulfilled" ELSE "rejected"
               /\ calls'[r.id].value = r.data]_vars

\* Two calls to one agent answered out of order: the call sent second has
\* been fulfilled with the data of its own reply while the call sent first
\* is still pending.
C22_Witness ==
  \E a, b \in Ids :
    /\ a # b
    /\ calls[a].clientId = calls[b].clientId
    /\ calls[a].ws = calls[b].ws
    /\ calls[a].promise = "pending"
    /\ calls[a].command = "START_RECORDING"
    /\ calls[a].issuedAt < calls[b].issuedAt
    /\ calls[b].command = "STOP_RECORDING"
    /\ calls[b].promise = "fulfilled"
    /\ calls[b].value.message = ErrForced

\* C24: in every state the calls whose responseHandler is registered on a
\* socket are exactly the calls whose promise is pending, and so are the
\* calls whose timer is armed; a call rejected because client.ws.send raised
\* has the send-failure error, no handler and no timer.
C24_HandlerIffPending ==
  \A id \in Ids :
    /\ calls[id].handler <=> calls[id].promise = "pending"
    /\ calls[id].timer = "armed" <=> calls[id].promise = "pending"
    /\ calls[id].timer = "none" /\ calls[id].promise # "unused"
       => /\ calls[id].promise = "rejected"
          /\ calls[id].value.error = ErrSendFailed
          /\ ~calls[id].handler

\* A call rejected by a failed send is in the table while another call, sent
\* without failure, is pending with its handler.
C24_Witness ==
  \E a, b \in Ids :
    /\ calls[a].promise = "rejected"
    /\ calls[a].value.error = ErrSendFailed
    /\ calls[a].timer = "none"
    /\ calls[b].promise = "pending"
    /\ calls[b].handler

\* C28: the close of a socket settles none of the calls pending on it and
\* returns nothing to their callers; a call pending on a closed socket, when
\* it settles, is rejected by its own timeout, no earlier than the timeout
\* allows.
C28_CloseLeavesCallsPending ==
  [][\A id \in Ids :
       calls[id].promise = "pending" =>
         /\ ( sock[calls[id].ws] = "OPEN" /\ sock'[calls[id].ws] = "CLOSED" )
            => calls'[id] = calls[id] /\ ret' = NoRet
         /\ ( sock[calls[id].ws] = "CLOSED" /\ calls'[id].promise # "pending" )
            => /\ calls'[id].promise = "rejected"
               /\ calls'[id].value.error = ErrTimeout
               /\ now - calls[id].issuedAt >= calls[id].timeout]_vars

\* A startRecording call is still pending after its agent's socket closed
\* and the agent left the registry.
C28_Witness ==
  \E id \in Ids :
    /\ calls[id].promise = "pending"
    /\ calls[id].awaiter = "startRecording"
    /\ sock[calls[id].ws] = "CLOSED"
    /\ ~MapHas(connectedClients, calls[id].clientId)

\* The indices of clientHealth whose agent passes lines 203-206, and the
\* score lines 208-221 give an entry.
EligibleEntries ==
  {i \in 1..Len(clientHealth) :
     /\ clientHealth[i].status = "healthy"
     /\ clientHealth[i].ffmpegAvailable
     /\ \E j \in 1..Len(connectedClients) :
          /\ connectedClients[j].clientId = clientHealth[i].clientId
          /\ connectedClients[j].connected}

ScoreOfEntry(i) ==
  BaseScore
  - SessionPenalty * Cardinality({x \in DOMAIN activeSessions :
                        /\ activeSessions[x].clientId = clientHealth[i].clientId
                        /\ activeSessions[x].status = "recording"})
  + clientHealth[i].audioDevices
  + (IF now - clientHealth[i].lastHealthCheck < RecencyWindow
     THEN RecencyBonus ELSE 0)

\* The first entry, in the order of clientHealth, among the eligible ones
\* of greatest score.
FirstBestEntry ==
  CHOOSE i \in EligibleEntries :
    /\ \A j \in EligibleEntries : ScoreOfEntry(j) <= ScoreOfEntry(i)
    /\ \A j \in EligibleEntries : ScoreOfEntry(j) = ScoreOfEntry(i) => i <= j

\* C25: whenever some agent is eligible, findBestClient returns the first
\* agent, in the order of clientHealth, among the eligible agents of
\* greatest score, the score being 100, minus 10 per recording session of
\* the agent, plus its number of audio devices, plus 10 when its last health
\* check is less than 60 s old.
C25_FirstOfGreatestScore ==
  EligibleEntries # {} => findBestClient = clientHealth[FirstBestEntry].clientId

\* C30: whenever some agent is eligible, findBestClient returns an agent.
C30_SomeAgentWhenEligible ==
  EligibleEntries # {} => findBestClient # NoClient

\* C26: a startRecording without a pinned agent that sends its command
\* stores no session while it awaits the reply, and the agent it sends to is
\* the first eligible agent of greatest score, the score counting the
\* sessions of activeSessions in status recording and nothing of the calls
\* still pending.
C26_PendingStartReservesNothing ==
  [][\A id \in Ids :
       ( /\ calls[id].promise # "pending"
         /\ calls'[id].promise = "pending"
         /\ calls'[id].awaiter = "startRecording" )
       => /\ activeSessions' = activeSessions
          /\ EligibleEntries # {}
          /\ calls'[id].clientId = clientHealth[FirstBestEntry].clientId]_vars

\* Two agents are eligible; the reply to the START_RECORDING of s1 has just
\* made s1 recording on an agent, and the START_RECORDING of s2, sent before
\* that reply was delivered, is pending on the same agent.
C26_Witness ==
  /\ Cardinality(EligibleEntries) = 2
  /\ ret = Ret("startRecording", "s1", "settled", "ok")
  /\ "s1" \in DOMAIN activeSessions
  /\ activeSessions["s1"].status = "recording"
  /\ \E id \in Ids :
       /\ calls[id].promise = "pending"
       /\ calls[id].awaiter = "startRecording"
       /\ calls[id].sessionId = "s2"
       /\ calls[id].clientId = activeSessions["s1"].clientId

\* C29: the step that registers an agent leaves its health record with
\* ffmpegAvailable false, so that findBestClient does not return it; and the
\* record of an agent gets ffmpegAvailable true only in a step that delivers
\* a successful SYSTEM_CHECK reply, reporting ffmpeg, to a pending call of
\* performClientHealthCheck for that agent.
C29_EligibleOnlyAfterHealthCheck ==
  [][\A c \in Clients :
       /\ ( \E id \in Ids : /\ calls[id].promise # "pending"
                            /\ calls'[id].promise = "pending"
                            /\ calls'[id].awaiter = "registerClient"
                            /\ calls'[id].clientId = c )
          => /\ MapHas(clientHealth', c)
             /\ ~MapGet(clientHealth', c).ffmpegAvailable
             /\ FindBestClientIn(clientHealth', connectedClients',
                                 activeSessions', now') # c
       /\ ( /\ MapHas(clientHealth', c)
            /\ MapGet(clientHealth', c).ffmpegAvailable
            /\ ~(MapHas(clientHealth, c) /\ MapGet(clientHealth, c).ffmpegAvailable) )
          => \E r \in replies \ replies' :
               /\ r.success
               /\ r.data.ffmpeg
               /\ calls[r.id].promise = "pending"
               /\ calls[r.id].awaiter = "performClientHealthCheck"
               /\ calls[r.id].clientId = c]_vars

\* The SYSTEM_CHECK sent at registration has been answered with ffmpeg
\* present, and the agent, connected and healthy, is still not eligible.
C29_Witness ==
  \E id \in Ids :
    /\ calls[id].awaiter = "registerClient"
    /\ calls[id].promise = "fulfilled"
    /\ calls[id].value.ffmpeg
    /\ CanSend(calls[id].clientId)
    /\ MapHas(clientHealth, calls[id].clientId)
    /\ MapGet(clientHealth, calls[id].clientId).status = "healthy"
    /\ ~MapGet(clientHealth, calls[id].clientId).ffmpegAvailable
    /\ findBestClient = NoClient

\* A stopRecording of the agent, answering message id, waits for the exit
\* of its process, and was called while the clock of the run can still reach
\* its 5 s timer.
StopWaiting(id) ==
  \E w \in Sockets : \E st \in agent[w].stops :
    st.id = id /\ st.armedAt < MaxTicks * TickMs

\* C27: a stopRecording of the agent that found its session in the table
\* resolves, whichever of the exit of the process and the 5 s timer comes
\* first; the step in which it resolves sends its one RESPONSE and leaves
\* the session id out of the agent's table, and a RESPONSE is sent only for
\* a command handled or a stopRecording resolved in that step.
C27_StopResolvesOnce ==
  /\ \A id \in Ids : StopWaiting(id) ~> ~StopWaiting(id)
  /\ [][/\ \A w \in Sockets : \A st \in agent[w].stops :
             st \notin agent'[w].stops
             => /\ st.sessionId \notin DOMAIN agent'[w].sessions
                /\ sock[w] = "OPEN"
                   => \E r \in replies' \ replies : r.ws = w /\ r.id = st.id
        /\ \A r \in replies' \ replies :
             \/ \E m \in cmds \ cmds' : m.ws = r.ws /\ m.id = r.id
             \/ \E st \in agent[r.ws].stops \ agent'[r.ws].stops : st.id = r.id]_vars

\* The 5 s timer has resolved a stopRecording whose process is still
\* running: the forced result is on its way and the session id is out of
\* the table.
C27_Witness ==
  \E r \in replies :
    /\ r.data.message = ErrForced
    /\ agent[r.ws].stops = {}
    /\ agent[r.ws].sessions = <<>>
    /\ \E pid \in Pids : agent[r.ws].procs[pid] = "running"

\* One agent id that can register over either of two connections, with
\* recordings pinned to it.
NextReregister == NextChannelOver(Sockets, {"A"}, {"s1"}, {1, 2}, {FALSE})

SpecReregister == Init /\ [][NextReregister]_vars

\* C35: when a connection closes, every agent whose registry entry holds
\* another connection (the agent registered again over a newer one) keeps
\* its entry unchanged, and the health table and the session table are
\* left as they were.
C35_CloseOfOldSocketKeepsAgent ==
  [][\A w \in Sockets :
       sock[w] = "OPEN" /\ sock'[w] = "CLOSED" =>
         \A c \in Clients :
           MapHas(connectedClients, c) /\ MapGet(connectedClients, c).ws # w =>
             /\ MapHas(connectedClients', c)
             /\ MapGet(connectedClients', c) = MapGet(connectedClients, c)
             /\ clientHealth' = clientHealth
             /\ activeSessions' = activeSessions]_vars

\* Agent A, whose first registration went over w1 (its probe is still
\* pending there), is registered over w2 with a recording session and a
\* health record after w1 closed.
C35_Witness ==
  /\ sock["w1"] = "CLOSED"
  /\ sock["w2"] = "OPEN"
  /\ \E id \in Ids :
       /\ calls[id].clientId = "A"
       /\ calls[id].ws = "w1"
       /\ calls[id].awaiter = "registerClient"
  /\ MapHas(connectedClients, "A")
  /\ MapGet(connectedClients, "A").ws = "w2"
  /\ MapHas(clientHealth, "A")
  /\ "s1" \in DOMAIN activeSessions
  /\ activeSessions["s1"].clientId = "A"
  /\ activeSessions["s1"].status = "recording"

\* C32: every agent id that has a record in the health table has an entry
\* in the registry.
C32_HealthKeysInRegistry ==
  \A c \in MapKeys(clientHealth) : MapHas(connectedClients, c)

\* C33: a step of the agent that spawns an engine process leaves every
\* process that was running and recorded for a session recorded for some
\* session, unless that process stopped running in the step.
C33_SpawnKeepsProcessesRecorded ==
  [][\A w \in Sockets :
       (\E q \in Pids : agent[w].procs[q] = "none" /\ agent'[w].procs[q] # "none")
       => \A p \in Pids :
            /\ agent[w].procs[p] = "running"
            /\ \E s \in DOMAIN agent[w].sessions : agent[w].sessions[s] = p
            /\ agent'[w].procs[p] = "running"
            => \E s \in DOMAIN agent'[w].sessions : agent'[w].sessions[s] = p]_vars

\* A START_RECORDING or STOP_RECORDING call for session s is in flight:
\* its promise is pending at the server, its command or its RESPONSE is on
\* the wire, or the agent has not answered its stop yet.
CallInFlight(s) ==
  \/ \E id \in Ids : calls[id].sessionId = s /\ calls[id].promise = "pending"
  \/ \E m \in cmds : m.sessionId = s
  \/ \E r \in replies : calls[r.id].sessionId = s
  \/ \E w \in Sockets : \E st \in agent[w].stops : st.sessionId = s

\* C31: while no call for session s is in flight, a session s that an
\* agent on an open connection holds with a running process is in the
\* server's session table, recording, assigned to the agent registered on
\* that connection.
C31_AgentSessionKnownToServer ==
  \A w \in Sockets, s \in SessionIds :
    /\ sock[w] = "OPEN"
    /\ s \in DOMAIN agent[w].sessions
    /\ agent[w].procs[agent[w].sessions[s]] = "running"
    /\ ~CallInFlight(s)
    => /\ s \in DOMAIN activeSessions
       /\ activeSessions[s].status = "recording"
       /\ \E c \in Clients :
            /\ MapHas(connectedClients, c)
            /\ MapGet(connectedClients, c).ws = w
            /\ activeSessions[s].clientId = c

\* C34: the timer callback of a restart spawns a process for a session id
\* only while the agent's table holds that id: once the stop of the
\* session has resolved and removed it, no process is spawned for it.
C34_NoRestartAfterStop ==
  [][\A w \in Sockets : \A r \in agent[w].restarts :
       /\ r \notin agent'[w].restarts
       /\ \E p \in Pids : agent[w].procs[p] = "none" /\ agent'[w].procs[p] = "running"
       => r.sessionId \in DOMAIN agent[w].sessions]_vars

====
